---- MODULE Spec2Model ----
(***************************************************************************)
(* Model of the horizon estimator of src/data/cv-processor.js (class       *)
(* CVProcessor): segment classification, seed-anchored clustering, cluster *)
(* scoring, weighted-median line fit and the bounded median smoother.      *)
(*                                                                         *)
(* Numbers.  The JavaScript code computes in IEEE doubles; the model uses  *)
(* fixed point:                                                            *)
(*   angles   in 1/100 degree   (AngleScale),                              *)
(*   lengths, offsets d and y in 1/10 pixel (LenScale),                    *)
(*   sin/cos  in 1/10000        (TrigScale),                               *)
(*   scores   in 1/10 pixel, confidence in 1/1000.                         *)
(* Math.atan2, Math.sin and Math.cos are tables over the directions and    *)
(* angles of the segment catalogue, rounded to the unit; Math.hypot and    *)
(* Math.sqrt are integer square roots of the scaled argument.              *)
(*                                                                         *)
(* Style.  A value that the code keeps in a local constant and reads       *)
(* several times is a parameter of a helper operator here (MedianOf hands  *)
(* the sorted copy to MiddleOf, and so on), so that it is computed once.   *)
(***************************************************************************)
EXTENDS Integers, Sequences, FiniteSets, TLC

VARIABLES
  horizonY,      \* this._buffers.horizonY      (cv-processor.js:100)
  horizonAngle,  \* this._buffers.horizonAngle  (cv-processor.js:101)
  config,        \* this.config                 (cv-processor.js:87)
  lastResult,    \* this.lastResult             (cv-processor.js:105)
  args,          \* arguments of the call of a utility method under check
  ret,           \* value returned by the last call
  pc,            \* position: which operation acted last
  rawY,          \* history: raw samples handed to _smoothValue('horizonY')
  rawAngle,      \* history: raw samples handed to _smoothValue('horizonAngle')
  preY,          \* history: horizonY buffer before the last frame
  preAngle,      \* history: horizonAngle buffer before the last frame
  lastLines,     \* history: the segment list of the last frame
  capChanged,    \* history: smoothFrames was changed after construction
  nFrames,       \* history: number of frames processed
  running,       \* this._running              (cv-processor.js:94)
  cvReady,       \* this._cvReady              (cv-processor.js:96)
  enabled,       \* this.config.enabled as "undefined", "true" or "false" (cv-processor.js:189, 198)
  lastProcessTime, \* this._lastProcessTime    (cv-processor.js:95)
  starting,      \* position of start(): waiting in waitForOpenCV
  clock,         \* the timestamp of the last tick, 0 before the first
  ticks,         \* history: the ticks that called _processFrame
  atStop         \* history: results and buffers at the last stop()

\* the state of start(), stop() and tick()
controlVars ==
  <<running, cvReady, enabled, lastProcessTime, starting, clock, ticks, atStop>>

vars == <<horizonY, horizonAngle, config, lastResult, args, ret, pc,
          rawY, rawAngle, preY, preAngle, lastLines, capChanged, nFrames,
          running, cvReady, enabled, lastProcessTime, starting, clock, ticks,
          atStop>>

----------------------------------------------------------------------------
(* Bounds of the model *)

MaxSmoothFrames == 2
MaxFrames == 3
MaxSlots == 5
MaxFeed == 5
MaxItems == 4
MaxValue == 4
MaxTolerance == 3
MaxMinSize == 2
MaxMedianItems == 3
MaxWeight == 3
MaxLines == 2
MaxWallLines == 11
MaxClusterSize == 3
MaxClusters == 3
MaxTicks == 4

(* Program constants *)

processWidth == 320
processHeight == 240
DefaultSmoothFrames == 5
DefaultHorizonMaxAngle == 45
DefaultWallAngleTolerance == 15
DefaultClusterAngleTolerance == 8
DefaultMinClusterSegments == 1
DefaultProcessInterval == 100
MaxWalls == 10

(* Fixed-point units *)

AngleScale == 100
LenScale == 10
TrigScale == 10000
TimeStep == 50

----------------------------------------------------------------------------
(* Arithmetic helpers *)

Abs(x) == IF x < 0 THEN -x ELSE x

Min(a, b) == IF a < b THEN a ELSE b

Max(a, b) == IF a > b THEN a ELSE b

\* a / b rounded to the nearest integer (b > 0), the fixed-point division
RoundDiv(a, b) == IF a >= 0 THEN (2 * a + b) \div (2 * b)
                             ELSE -((2 * (-a) + b) \div (2 * b))

\* null of JavaScript
Null == [null |-> TRUE]

\* the last n elements of s
LastN(s, n) == SubSeq(s, Len(s) - n + 1, Len(s))

----------------------------------------------------------------------------
(* _smoothValue: cv-processor.js:702-712 *)

\* [...buffer].sort((a, b) => a - b): insertion of x into an ascending sequence
RECURSIVE InsertNum(_, _)
InsertNum(s, x) ==
  IF s = <<>> THEN <<x>>
  ELSE IF x < Head(s) THEN <<x>> \o s
  ELSE <<Head(s)>> \o InsertNum(Tail(s), x)

RECURSIVE SortNum(_)
SortNum(s) ==
  IF s = <<>> THEN <<>>
  ELSE InsertNum(SortNum(SubSeq(s, 1, Len(s) - 1)), s[Len(s)])

\* variant: pop() in place of shift(), the newest sample is evicted
PopIfOver(pushed, maxSize) ==
  IF Len(pushed) > maxSize THEN SubSeq(pushed, 1, Len(pushed) - 1) ELSE pushed

\* if (buffer.length > maxSize) buffer.shift();
ShiftIfOver(pushed, maxSize) ==
  IF Len(pushed) > maxSize THEN Tail(pushed) ELSE pushed

\* buffer.push(value); if (buffer.length > maxSize) buffer.shift();
PushShift(buffer, maxSize, value) == ShiftIfOver(Append(buffer, value), maxSize)

\* undefined of JavaScript: what an index past the end of an array reads
Undefined == [undefined |-> TRUE]

\* variant: the lower middle element, index floor((n - 1) / 2)
LowerMiddleOf(sorted) ==
  IF Len(sorted) = 0 THEN Undefined ELSE sorted[((Len(sorted) - 1) \div 2) + 1]

\* sorted[Math.floor(sorted.length / 2)]
MiddleOf(sorted) ==
  IF (Len(sorted) \div 2) + 1 <= Len(sorted)
  THEN sorted[(Len(sorted) \div 2) + 1]
  ELSE Undefined

\* variant: the arithmetic mean of the buffer in place of its median
RECURSIVE SumNum(_)
SumNum(s) == IF s = <<>> THEN 0 ELSE Head(s) + SumNum(Tail(s))

MeanOf(buffer) == IF buffer = <<>> THEN Undefined ELSE SumNum(buffer) \div Len(buffer)

MedianOf(buffer) == MiddleOf(SortNum(buffer))

\* the buffer after the call and the value returned
Smoothed(b) == [buffer |-> b, value |-> MedianOf(b)]

\* variant: a moving average over the window size in place of the median
SmoothValueWindowMean(buffer, maxSize, value) ==
  [buffer |-> PushShift(buffer, maxSize, value),
   value |-> SumNum(PushShift(buffer, maxSize, value)) \div maxSize]

SmoothValue(buffer, maxSize, value) == Smoothed(PushShift(buffer, maxSize, value))

----------------------------------------------------------------------------
(* _weightedMedian: cv-processor.js:680-695 *)

\* [...items].sort((a, b) => a.v - b.v): stable, ascending by v
RECURSIVE InsertByV(_, _)
InsertByV(s, x) ==
  IF s = <<>> THEN <<x>>
  ELSE IF x.v < Head(s).v THEN <<x>> \o s
  ELSE <<Head(s)>> \o InsertByV(Tail(s), x)

RECURSIVE SortByV(_)
SortByV(s) ==
  IF s = <<>> THEN <<>>
  ELSE InsertByV(SortByV(SubSeq(s, 1, Len(s) - 1)), s[Len(s)])

\* sorted.reduce((sum, x) => sum + x.w, 0)
RECURSIVE SumW(_)
SumW(s) == IF s = <<>> THEN 0 ELSE Head(s).w + SumW(Tail(s))

\* variant: cumWeight > half in place of cumWeight >= half
RECURSIVE MedianScanStrict(_, _, _, _)
MedianScanStrict(sorted, k, cumWeight, totalWeight) ==
  IF k > Len(sorted) THEN sorted[Len(sorted)].v
  ELSE IF 2 * (cumWeight + sorted[k].w) > totalWeight THEN sorted[k].v
  ELSE MedianScanStrict(sorted, k + 1, cumWeight + sorted[k].w, totalWeight)

\* the loop: cumWeight += item.w; if (cumWeight >= half) return item.v;
\* half = totalWeight / 2, so cumWeight >= half is 2 * cumWeight >= totalWeight.
\* Past the loop: return sorted[sorted.length - 1].v
RECURSIVE MedianScan(_, _, _, _)
MedianScan(sorted, k, cumWeight, totalWeight) ==
  IF k > Len(sorted) THEN sorted[Len(sorted)].v
  ELSE IF 2 * (cumWeight + sorted[k].w) >= totalWeight THEN sorted[k].v
  ELSE MedianScan(sorted, k + 1, cumWeight + sorted[k].w, totalWeight)

MedianOfSorted(sorted) == MedianScan(sorted, 1, 0, SumW(sorted))

WeightedMedian(its) ==
  IF Len(its) = 0 THEN 0
  ELSE IF Len(its) = 1 THEN its[1].v
  ELSE MedianOfSorted(SortByV(its))

----------------------------------------------------------------------------
(* _clusterByProperty: cv-processor.js:570-596 *)

\* variant: <= tolerance in place of < tolerance
RECURSIVE ClusterScanInclusive(_, _, _, _, _, _, _)
ClusterScanInclusive(its, prop, tol, seed, j, cluster, used) ==
  IF j > Len(its) THEN [cluster |-> cluster, used |-> used]
  ELSE IF j \in used
       THEN ClusterScanInclusive(its, prop, tol, seed, j + 1, cluster, used)
  ELSE IF Abs(seed[prop] - its[j][prop]) <= tol
       THEN ClusterScanInclusive(its, prop, tol, seed, j + 1,
                                 Append(cluster, its[j]), used \cup {j})
       ELSE ClusterScanInclusive(its, prop, tol, seed, j + 1, cluster, used)

\* variant: compare with the member added last in place of the seed (chaining)
RECURSIVE ClusterScanChained(_, _, _, _, _, _, _)
ClusterScanChained(its, prop, tol, seed, j, cluster, used) ==
  IF j > Len(its) THEN [cluster |-> cluster, used |-> used]
  ELSE IF j \in used
       THEN ClusterScanChained(its, prop, tol, seed, j + 1, cluster, used)
  ELSE IF Abs(cluster[Len(cluster)][prop] - its[j][prop]) < tol
       THEN ClusterScanChained(its, prop, tol, seed, j + 1,
                               Append(cluster, its[j]), used \cup {j})
       ELSE ClusterScanChained(its, prop, tol, seed, j + 1, cluster, used)

\* the inner loop over j = i + 1 .. items.length - 1: the items that join seed
RECURSIVE ClusterScan(_, _, _, _, _, _, _)
ClusterScan(its, prop, tol, seed, j, cluster, used) ==
  IF j > Len(its) THEN [cluster |-> cluster, used |-> used]
  ELSE IF j \in used THEN ClusterScan(its, prop, tol, seed, j + 1, cluster, used)
  ELSE IF Abs(seed[prop] - its[j][prop]) < tol
       THEN ClusterScan(its, prop, tol, seed, j + 1,
                        Append(cluster, its[j]), used \cup {j})
       ELSE ClusterScan(its, prop, tol, seed, j + 1, cluster, used)

\* variant: the size test is missing
PushClusterAlways(clusters, cluster, minSz) == Append(clusters, cluster)

\* if (cluster.length >= minSize) clusters.push(cluster)
PushCluster(clusters, cluster, minSz) ==
  IF Len(cluster) >= minSz THEN Append(clusters, cluster) ELSE clusters

\* the outer loop over i; `grown` is the cluster of seed i - 1 and the used set
RECURSIVE ClusterLoop(_, _, _, _, _, _, _)
RECURSIVE ClusterStep(_, _, _, _, _, _, _)
\* variant: the used set is dropped from one seed to the next
ClusterStepForgetful(its, prop, tol, minSz, i, grown, clusters) ==
  ClusterLoop(its, prop, tol, minSz, i + 1, {},
              PushCluster(clusters, grown.cluster, minSz))

ClusterStep(its, prop, tol, minSz, i, grown, clusters) ==
  ClusterLoop(its, prop, tol, minSz, i + 1, grown.used,
              PushCluster(clusters, grown.cluster, minSz))

ClusterLoop(its, prop, tol, minSz, i, used, clusters) ==
  IF i > Len(its) THEN clusters
  ELSE IF i \in used THEN ClusterLoop(its, prop, tol, minSz, i + 1, used, clusters)
  ELSE ClusterStep(its, prop, tol, minSz, i,
                   ClusterScan(its, prop, tol, its[i], i + 1, <<its[i]>>,
                               used \cup {i}),
                   clusters)

ClusterByProperty(its, prop, tol, minSz) ==
  ClusterLoop(its, prop, tol, minSz, 1, {}, <<>>)

----------------------------------------------------------------------------
(* Math library in fixed point *)

\* floor(sqrt(n)) by bisection, lo * lo <= n < hi * hi
RECURSIVE IsqrtBetween(_, _, _)
IsqrtBetween(n, lo, hi) ==
  IF hi - lo <= 1 THEN lo
  ELSE IF ((lo + hi) \div 2) * ((lo + hi) \div 2) <= n
       THEN IsqrtBetween(n, (lo + hi) \div 2, hi)
       ELSE IsqrtBetween(n, lo, (lo + hi) \div 2)

Isqrt(n) == IsqrtBetween(n, 0, 46341)

\* Math.hypot(dx, dy) in 1/LenScale pixel
Hypot(dx, dy) == Isqrt((dx * dx + dy * dy) * LenScale * LenScale)

\* Math.sqrt(n) in 1/1000
Sqrt1000(n) == Isqrt(n * 1000000)

\* Math.atan2(dy, dx) * 180 / Math.PI in 1/AngleScale degree: exact on the axes
\* and the diagonals, a table for the other directions of the catalogue
Atan2Deg(dy, dx) ==
  CASE dy = 0 /\ dx >= 0 -> 0
    [] dy = 0 /\ dx < 0 -> 180 * AngleScale
    [] dx = 0 /\ dy > 0 -> 90 * AngleScale
    [] dx = 0 /\ dy < 0 -> -90 * AngleScale
    [] dx > 0 /\ dy = dx -> 45 * AngleScale
    [] dx > 0 /\ dy = -dx -> -45 * AngleScale
    [] dx < 0 /\ dy = -dx -> 135 * AngleScale
    [] dx < 0 /\ dy = dx -> -135 * AngleScale
    [] dx > 0 /\ 10 * dy = dx -> 571
    [] dx > 0 /\ 10 * dy = -dx -> -571
    [] dx > 0 /\ 3 * dy = 17 * dx -> 7999
    [] dx < 0 /\ 3 * dy = 17 * dx -> -10001
    [] dx > 0 /\ 3 * dy = -17 * dx -> -7999
    [] dx < 0 /\ 3 * dy = -17 * dx -> 10001
    [] dx < 0 /\ 10 * dy = -dx -> 17429
    [] dx < 0 /\ 10 * dy = dx -> -17429

\* Math.sin and Math.cos of an angle in 1/AngleScale degree, in 1/TrigScale:
\* a table for the directions of the catalogue between -90 and 90 degrees,
\* and sin(a +- 180) = -sin(a), cos(a +- 180) = -cos(a) outside
SinTable(a) ==
  CASE a = 0 -> 0
    [] a = 571 -> 995
    [] a = -571 -> -995
    [] a = 4500 -> 7071
    [] a = -4500 -> -7071
    [] a = 7999 -> 9848
    [] a = -7999 -> -9848
    [] a = 9000 -> 10000
    [] a = -9000 -> -10000

CosTable(a) ==
  CASE a = 0 -> 10000
    [] a = 571 -> 9950
    [] a = -571 -> 9950
    [] a = 4500 -> 7071
    [] a = -4500 -> 7071
    [] a = 7999 -> 1738
    [] a = -7999 -> 1738
    [] a = 9000 -> 0
    [] a = -9000 -> 0

SinDeg(a) ==
  IF a > 90 * AngleScale THEN -SinTable(a - 180 * AngleScale)
  ELSE IF a < -90 * AngleScale THEN -SinTable(a + 180 * AngleScale)
  ELSE SinTable(a)

CosDeg(a) ==
  IF a > 90 * AngleScale THEN -CosTable(a - 180 * AngleScale)
  ELSE IF a < -90 * AngleScale THEN -CosTable(a + 180 * AngleScale)
  ELSE CosTable(a)

----------------------------------------------------------------------------
(* _computeAdaptiveParams: cv-processor.js:424-443 *)

\* Math.sqrt(w * w + h * h) in 1/LenScale pixel
Diagonal(w, h) == Isqrt((w * w + h * h) * LenScale * LenScale)

ComputeAdaptiveParams(w, h, cfg) ==
  [clusterToleranceD |-> Max(10 * LenScale, RoundDiv(Diagonal(w, h) * 3, 100)),
   clusterToleranceAngle |->
     (IF cfg.clusterAngleTolerance # 0 THEN cfg.clusterAngleTolerance
      ELSE DefaultClusterAngleTolerance) * AngleScale]

----------------------------------------------------------------------------
(* _classifyLines, the loop over the Hough lines: cv-processor.js:463-501 *)

\* variant: only angles above 90 are brought back
NormalizeUpper(angle) ==
  IF angle > 90 * AngleScale THEN angle - 180 * AngleScale ELSE angle

\* if (normAngle > 90) normAngle -= 180; if (normAngle < -90) normAngle += 180;
Normalize(angle) ==
  IF angle > 90 * AngleScale THEN angle - 180 * AngleScale
  ELSE IF angle < -90 * AngleScale THEN angle + 180 * AngleScale
  ELSE angle

\* variant: the offset with the opposite sign of the cosine term
OffsetDSum(cx, cy, normAngle) ==
  RoundDiv(cx * SinDeg(normAngle) + cy * CosDeg(normAngle), TrigScale)

\* d = cx * Math.sin(rad) - cy * Math.cos(rad)
OffsetD(cx, cy, normAngle) ==
  RoundDiv(cx * SinDeg(normAngle) - cy * CosDeg(normAngle), TrigScale)

\* one Hough line <<x1, y1, x2, y2>> with its derived values
Derived(line, angle, normAngle, length, cx, cy) ==
  [x1 |-> line[1], y1 |-> line[2], x2 |-> line[3], y2 |-> line[4],
   cx |-> cx, cy |-> cy, rawAngle |-> angle, angle |-> normAngle,
   d |-> OffsetD(cx, cy, normAngle), length |-> length]

DeriveAt(line, angle) ==
  Derived(line, angle, Normalize(angle),
          Hypot(line[3] - line[1], line[4] - line[2]),
          ((line[1] + line[3]) * LenScale) \div 2,
          ((line[2] + line[4]) * LenScale) \div 2)

Derive(line) == DeriveAt(line, Atan2Deg(line[4] - line[2], line[3] - line[1]))

\* if (Math.abs(normAngle) < maxHorizonAngle)
IsHorizonCandidate(seg, cfg) ==
  Abs(seg.angle) < cfg.horizonMaxAngle * AngleScale

\* if (Math.abs(Math.abs(angle) - 90) < wallTolerance)
IsWallCandidate(seg, cfg) ==
  Abs(Abs(seg.rawAngle) - 90 * AngleScale) < cfg.wallAngleTolerance * AngleScale

\* horizonCandidates.push({ x1, y1, x2, y2, cx, cy, angle: normAngle, d, length })
HorizonEntry(seg) ==
  [x1 |-> seg.x1, y1 |-> seg.y1, x2 |-> seg.x2, y2 |-> seg.y2, cx |-> seg.cx,
   cy |-> seg.cy, angle |-> seg.angle, d |-> seg.d, length |-> seg.length]

\* wallCandidates.push({ x1, y1, x2, y2, angle, length })
WallEntry(seg) ==
  [x1 |-> seg.x1, y1 |-> seg.y1, x2 |-> seg.x2, y2 |-> seg.y2,
   angle |-> seg.rawAngle, length |-> seg.length]

\* the two pushes of one iteration
Classified(seg, cfg, acc) ==
  [horizonCandidates |->
     IF IsHorizonCandidate(seg, cfg)
     THEN Append(acc.horizonCandidates, HorizonEntry(seg))
     ELSE acc.horizonCandidates,
   wallCandidates |->
     IF IsWallCandidate(seg, cfg)
     THEN Append(acc.wallCandidates, WallEntry(seg))
     ELSE acc.wallCandidates]

RECURSIVE ClassifyLoop(_, _, _, _)
ClassifyLoop(lines, cfg, i, acc) ==
  IF i > Len(lines) THEN acc
  ELSE ClassifyLoop(lines, cfg, i + 1, Classified(Derive(lines[i]), cfg, acc))

Candidates(lines, cfg) ==
  ClassifyLoop(lines, cfg, 1, [horizonCandidates |-> <<>>, wallCandidates |-> <<>>])

----------------------------------------------------------------------------
(* _selectBestCluster: cv-processor.js:602-626 *)

\* cluster.reduce((sum, l) => sum + l.length, 0)
RECURSIVE SumLength(_)
SumLength(cluster) ==
  IF cluster = <<>> THEN 0 ELSE Head(cluster).length + SumLength(Tail(cluster))

\* cluster.reduce((sum, l) => sum + l.angle * l.length, 0)
RECURSIVE SumAngleLength(_)
SumAngleLength(cluster) ==
  IF cluster = <<>> THEN 0
  ELSE Head(cluster).angle * Head(cluster).length + SumAngleLength(Tail(cluster))

\* 1.0 - Math.abs(avgAngle) / 45, in 1/10000
AngleBonus(avgAngle) == 10000 - RoundDiv(Abs(avgAngle) * 10000, 45 * AngleScale)

\* variant: the weights of the constant and of the angle bonus exchanged
ScoreSwapped(totalLength, segmentCount, angleBonus) ==
  RoundDiv(RoundDiv(totalLength * Sqrt1000(segmentCount), 1000)
             * (3000 + RoundDiv(7 * angleBonus, 10)),
           10000)

\* variant: the factor Math.sqrt(segmentCount) is missing
ScoreNoCount(totalLength, segmentCount, angleBonus) ==
  RoundDiv(totalLength * (7000 + RoundDiv(3 * angleBonus, 10)), 10000)

\* totalLength * Math.sqrt(segmentCount) * (0.7 + 0.3 * angleBonus), 1/LenScale
Score(totalLength, segmentCount, angleBonus) ==
  RoundDiv(RoundDiv(totalLength * Sqrt1000(segmentCount), 1000)
             * (7000 + RoundDiv(3 * angleBonus, 10)),
           10000)

\* avgAngle = sum / totalLength; a total length of 0 makes it 0 / 0 = NaN,
\* and with it the score NaN
AvgAngle(cluster, totalLength) ==
  IF totalLength = 0 THEN 0 ELSE RoundDiv(SumAngleLength(cluster), totalLength)

ScoredWith(cluster, totalLength, avgAngle) ==
  [cluster |-> cluster, totalLength |-> totalLength,
   segmentCount |-> Len(cluster), avgAngle |-> avgAngle,
   score |-> Score(totalLength, Len(cluster), AngleBonus(avgAngle)),
   isNaN |-> (totalLength = 0)]

ScoredAt(cluster, totalLength) ==
  ScoredWith(cluster, totalLength, AvgAngle(cluster, totalLength))

Scored(cluster) == ScoredAt(cluster, SumLength(cluster))

\* if (score > bestScore) { bestScore = score; best = {...} }
\* NaN > x is false; any number > -Infinity is true
Better(c, best) ==
  IF ~c.isNaN /\ (best = Null \/ c.score > best.score) THEN c ELSE best

RECURSIVE SelectLoop(_, _)
SelectLoop(clusters, best) ==
  IF clusters = <<>> THEN best
  ELSE SelectLoop(Tail(clusters), Better(Scored(Head(clusters)), best))

SelectBestCluster(clusters) == SelectLoop(clusters, Null)

----------------------------------------------------------------------------
(* _buildHorizonLine: cv-processor.js:631-670 *)

\* cluster.map(l => ({ v: l.angle, w: l.length }))
AngleWeights(cluster) ==
  [i \in 1..Len(cluster) |-> [v |-> cluster[i].angle, w |-> cluster[i].length]]

\* variant: the negated midpoint y in place of the offset d
DWeightsMidpoint(cluster) ==
  [i \in 1..Len(cluster) |-> [v |-> -cluster[i].cy, w |-> cluster[i].length]]

\* cluster.map(l => ({ v: l.d, w: l.length }))
DWeights(cluster) ==
  [i \in 1..Len(cluster) |-> [v |-> cluster[i].d, w |-> cluster[i].length]]

\* variant: the fallback already below |cos| = 0.2
CenterYAtWide(sin, cos, medianD, width, height) ==
  IF 5 * Abs(cos) > TrigScale
  THEN RoundDiv(((width * LenScale) \div 2) * sin - medianD * TrigScale, cos)
  ELSE (height * LenScale) \div 2

\* Math.abs(cos) > 0.001 ? ((width / 2) * sin - medianD) / cos : height / 2
CenterYAt(sin, cos, medianD, width, height) ==
  IF 1000 * Abs(cos) > TrigScale
  THEN RoundDiv(((width * LenScale) \div 2) * sin - medianD * TrigScale, cos)
  ELSE (height * LenScale) \div 2

CenterY(medianAngle, medianD, width, height) ==
  CenterYAt(SinDeg(medianAngle), CosDeg(medianAngle), medianD, width, height)

\* variant: the ratio without the clamp at 1
ConfidenceUnclamped(score, width, height) ==
  RoundDiv(score * 1000 * 10, Diagonal(width, height) * 8)

\* Math.min(score / (diagonal * 0.8), 1), in 1/1000
Confidence(score, width, height) ==
  Min(RoundDiv(score * 1000 * 10, Diagonal(width, height) * 8), 1000)

\* what a call of _detectHorizon leaves: whether it threw, the value returned,
\* the two buffers, and the raw samples it pushed
Outcome(threw, horizon, bufY, bufAngle, sampleY, sampleAngle) ==
  [threw |-> threw, horizon |-> horizon, horizonY |-> bufY,
   horizonAngle |-> bufAngle, sampleY |-> sampleY, sampleAngle |-> sampleAngle]

\* variant: d is the offset of the smoothed line instead of the median offset
EstimateSmoothedD(best, medianD, smoothY, smoothAngle, width, height) ==
  [y |-> smoothY, angle |-> smoothAngle,
   d |-> RoundDiv(((width * LenScale) \div 2) * SinDeg(smoothAngle)
                  - smoothY * CosDeg(smoothAngle), TrigScale),
   segments |-> best.cluster,
   confidence |-> Confidence(best.score, width, height),
   segmentCount |-> best.segmentCount, totalLength |-> best.totalLength]

\* return { y: smoothY, angle: smoothAngle, d: medianD, segments: cluster, ... }
Estimate(best, medianD, smoothY, smoothAngle, width, height) ==
  [y |-> smoothY, angle |-> smoothAngle, d |-> medianD,
   segments |-> best.cluster,
   confidence |-> Confidence(best.score, width, height),
   segmentCount |-> best.segmentCount, totalLength |-> best.totalLength]

BuildSmoothed(best, medianAngle, medianD, centerY, smY, smAngle, width, height) ==
  Outcome(FALSE,
          Estimate(best, medianD, smY.value, smAngle.value, width, height),
          smY.buffer, smAngle.buffer, <<centerY>>, <<medianAngle>>)

\* variant: only y goes through the median filter, the angle is returned raw
BuildAtYOnly(best, medianAngle, medianD, centerY, width, height, bufY, bufAngle, cfg) ==
  BuildSmoothed(best, medianAngle, medianD, centerY,
                SmoothValue(bufY, cfg.smoothFrames, centerY),
                [value |-> medianAngle, buffer |-> bufAngle],
                width, height)

BuildAt(best, medianAngle, medianD, centerY, width, height, bufY, bufAngle, cfg) ==
  BuildSmoothed(best, medianAngle, medianD, centerY,
                SmoothValue(bufY, cfg.smoothFrames, centerY),
                SmoothValue(bufAngle, cfg.smoothFrames, medianAngle),
                width, height)

BuildWith(best, medianAngle, medianD, width, height, bufY, bufAngle, cfg) ==
  BuildAt(best, medianAngle, medianD,
          CenterY(medianAngle, medianD, width, height),
          width, height, bufY, bufAngle, cfg)

\* const { cluster, ... } = best throws a TypeError when best is null,
\* before anything is changed
BuildHorizonLine(best, width, height, bufY, bufAngle, cfg) ==
  IF best = Null
  THEN Outcome(TRUE, Null, bufY, bufAngle, <<>>, <<>>)
  ELSE BuildWith(best,
                 WeightedMedian(AngleWeights(best.cluster)),
                 WeightedMedian(DWeights(best.cluster)),
                 width, height, bufY, bufAngle, cfg)

----------------------------------------------------------------------------
(* _detectHorizon: cv-processor.js:526-561 *)

\* variant: one clustering by d over all angle clusters together
RECURSIVE Flattened(_)
Flattened(clusters) ==
  IF clusters = <<>> THEN <<>> ELSE Head(clusters) \o Flattened(Tail(clusters))

CollinearClustersFlat(angleClusters, tolD, minSegments) ==
  ClusterByProperty(Flattened(angleClusters), "d", tolD, minSegments)

\* for (const angleCluster of angleClusters) collinearClusters.push(...dClusters)
RECURSIVE CollinearClusters(_, _, _)
CollinearClusters(angleClusters, tolD, minSegments) ==
  IF angleClusters = <<>> THEN <<>>
  ELSE ClusterByProperty(Head(angleClusters), "d", tolD, minSegments)
       \o CollinearClusters(Tail(angleClusters), tolD, minSegments)

\* steps 3 and 4, from the collinear clusters
DetectFromCollinear(collinearClusters, width, height, bufY, bufAngle, cfg) ==
  IF Len(collinearClusters) = 0
  THEN Outcome(FALSE, Null, bufY, bufAngle, <<>>, <<>>)
  ELSE BuildHorizonLine(SelectBestCluster(collinearClusters),
                        width, height, bufY, bufAngle, cfg)

\* step 2, from the angle clusters
DetectFromAngle(angleClusters, width, height, params, bufY, bufAngle, cfg) ==
  IF Len(angleClusters) = 0
  THEN Outcome(FALSE, Null, bufY, bufAngle, <<>>, <<>>)
  ELSE DetectFromCollinear(
         CollinearClusters(angleClusters, params.clusterToleranceD,
                           cfg.minClusterSegments),
         width, height, bufY, bufAngle, cfg)

\* variant: a frame without candidates pushes the frame centre as a sample
DetectHorizonAdvancing(candidates, width, height, params, bufY, bufAngle, cfg) ==
  IF Len(candidates) = 0
  THEN Outcome(FALSE, Null,
               PushShift(bufY, cfg.smoothFrames, (height * LenScale) \div 2),
               PushShift(bufAngle, cfg.smoothFrames, 0), <<>>, <<>>)
  ELSE DetectFromAngle(
         ClusterByProperty(candidates, "angle", params.clusterToleranceAngle,
                           cfg.minClusterSegments),
         width, height, params, bufY, bufAngle, cfg)

DetectHorizon(candidates, width, height, params, bufY, bufAngle, cfg) ==
  IF Len(candidates) = 0
  THEN Outcome(FALSE, Null, bufY, bufAngle, <<>>, <<>>)
  ELSE DetectFromAngle(
         ClusterByProperty(candidates, "angle", params.clusterToleranceAngle,
                           cfg.minClusterSegments),
         width, height, params, bufY, bufAngle, cfg)

----------------------------------------------------------------------------
(* _classifyLines: cv-processor.js:456-511 *)

\* wallCandidates.sort((a, b) => b.length - a.length): stable, descending
RECURSIVE InsertByLengthDesc(_, _)
InsertByLengthDesc(s, x) ==
  IF s = <<>> THEN <<x>>
  ELSE IF x.length > Head(s).length THEN <<x>> \o s
  ELSE <<Head(s)>> \o InsertByLengthDesc(Tail(s), x)

RECURSIVE SortByLengthDesc(_)
SortByLengthDesc(s) ==
  IF s = <<>> THEN <<>>
  ELSE InsertByLengthDesc(SortByLengthDesc(SubSeq(s, 1, Len(s) - 1)), s[Len(s)])

\* wallCandidates.slice(0, 10)
Slice(sorted, n) == SubSeq(sorted, 1, Min(Len(sorted), n))

\* variant: the first ten wall candidates in input order, without the sort
TopWallsUnsorted(wallCandidates) == Slice(wallCandidates, MaxWalls)

TopWalls(wallCandidates) == Slice(SortByLengthDesc(wallCandidates), MaxWalls)

\* variant: the walls are reported only together with a horizon
ClassificationWithHorizon(h, wallCandidates) ==
  [threw |-> h.threw, horizon |-> h.horizon,
   walls |-> IF h.threw \/ h.horizon = Null THEN <<>>
             ELSE TopWalls(wallCandidates),
   horizonY |-> h.horizonY, horizonAngle |-> h.horizonAngle,
   sampleY |-> h.sampleY, sampleAngle |-> h.sampleAngle]

\* return { horizon, walls }; nothing is returned when _detectHorizon threw
Classification(h, wallCandidates) ==
  [threw |-> h.threw, horizon |-> h.horizon,
   walls |-> IF h.threw THEN <<>> ELSE TopWalls(wallCandidates),
   horizonY |-> h.horizonY, horizonAngle |-> h.horizonAngle,
   sampleY |-> h.sampleY, sampleAngle |-> h.sampleAngle]

ClassifyCandidates(c, width, height, params, bufY, bufAngle, cfg) ==
  Classification(DetectHorizon(c.horizonCandidates, width, height, params,
                               bufY, bufAngle, cfg),
                 c.wallCandidates)

ClassifyLines(lines, width, height, params, bufY, bufAngle, cfg) ==
  ClassifyCandidates(Candidates(lines, cfg), width, height, params,
                     bufY, bufAngle, cfg)

----------------------------------------------------------------------------
(* Inputs *)

\* Hough lines <<x1, y1, x2, y2>> inside the 320 x 240 processing frame
SegA1 == <<20, 120, 120, 120>>
SegA2 == <<130, 120, 220, 120>>
SegA3 == <<230, 120, 300, 120>>
SegRev == <<300, 126, 100, 126>>
SegLow == <<20, 132, 80, 132>>
SegHigh == <<10, 60, 110, 60>>
SegUp == <<20, 100, 120, 110>>
SegDown == <<20, 110, 120, 100>>
SegDiag == <<100, 100, 150, 150>>
SegVert == <<160, 20, 160, 200>>
SegSteep == <<100, 20, 130, 190>>
SegSteepRev == <<130, 190, 100, 20>>
SegZero == <<50, 50, 50, 50>>
SegAnti == <<150, 100, 100, 150>>
SegDiagRev == <<150, 150, 100, 100>>
SegVertUp == <<160, 200, 160, 20>>
SegDownRev == <<120, 100, 20, 110>>
SegSteepDown == <<100, 190, 130, 20>>
SegDot == <<10, 10, 11, 10>>

SegmentCatalog ==
  {SegA1, SegA2, SegA3, SegRev, SegLow, SegHigh, SegUp, SegDown, SegDiag,
   SegVert, SegSteep, SegSteepRev, SegZero, SegAnti, SegDiagRev, SegVertUp,
   SegDownRev, SegSteepDown}

\* all sequences over S of length at most n
SeqsUpTo(S, n) == UNION {[1..k -> S] : k \in 0..n}

\* the frames of the processor's runs
FrameSet ==
  {<<>>,
   <<SegA1, SegA2, SegA3>>,
   <<SegHigh>>,
   <<SegUp, SegRev, SegLow>>,
   <<SegSteep>>,
   <<SegDiag, SegVert>>,
   <<SegZero>>,
   <<SegDownRev, SegAnti, SegDiagRev, SegVertUp, SegSteepRev>>}

\* constructor options and slider values (degrees, frames, segments)
SmoothFramesOptions == 1..MaxSmoothFrames

HorizonMaxAngleOptions == {DefaultHorizonMaxAngle, 85}

WallAngleToleranceOptions == {DefaultWallAngleTolerance}

MinClusterSegmentsOptions == {DefaultMinClusterSegments, 2}

ConfigOptions ==
  [smoothFrames : SmoothFramesOptions,
   horizonMaxAngle : HorizonMaxAngleOptions,
   wallAngleTolerance : WallAngleToleranceOptions,
   clusterAngleTolerance : {DefaultClusterAngleTolerance},
   minClusterSegments : MinClusterSegmentsOptions,
   processInterval : {DefaultProcessInterval}]

\* CVProcessor.DEFAULTS: cv-processor.js:37-68
DEFAULTS ==
  [smoothFrames |-> DefaultSmoothFrames,
   horizonMaxAngle |-> DefaultHorizonMaxAngle,
   wallAngleTolerance |-> DefaultWallAngleTolerance,
   clusterAngleTolerance |-> DefaultClusterAngleTolerance,
   minClusterSegments |-> DefaultMinClusterSegments,
   processInterval |-> DefaultProcessInterval]

----------------------------------------------------------------------------
(* The processor: constructor, _processFrame, updateConfig *)

NoArgs == [none |-> TRUE]

\* the fields the constructor sets, and the empty history
Constructed ==
  /\ horizonY = <<>>
  /\ horizonAngle = <<>>
  /\ lastResult = [horizon |-> Null, walls |-> <<>>]
  /\ ret = Null
  /\ pc = "init"
  /\ rawY = <<>>
  /\ rawAngle = <<>>
  /\ preY = <<>>
  /\ preAngle = <<>>
  /\ lastLines = <<>>
  /\ capChanged = FALSE
  /\ nFrames = 0
  /\ running = FALSE
  /\ cvReady = FALSE
  /\ enabled = "undefined"
  /\ lastProcessTime = 0
  /\ starting = FALSE
  /\ clock = 0
  /\ ticks = <<>>
  /\ atStop = [horizonY |-> <<>>, horizonAngle |-> <<>>,
               lastResult |-> [horizon |-> Null, walls |-> <<>>]]

\* constructor: cv-processor.js:78-122
Init ==
  /\ Constructed
  /\ config \in ConfigOptions
  /\ args = NoArgs

\* _processFrame on a captured frame whose Hough lines are `lines`:
\* cv-processor.js:245-266, with _analyze (309-352) and _classifyLines.
\* A throw is caught by _processFrame, which leaves lastResult as it was.
RunFrame(lines) ==
  /\ nFrames < MaxFrames
  /\ \E r \in {ClassifyLines(lines, processWidth, processHeight,
                             ComputeAdaptiveParams(processWidth, processHeight,
                                                   config),
                             horizonY, horizonAngle, config)} :
       /\ horizonY' = r.horizonY
       /\ horizonAngle' = r.horizonAngle
       /\ lastResult' = IF r.threw THEN lastResult
                        ELSE [horizon |-> r.horizon, walls |-> r.walls]
       /\ ret' = IF r.threw THEN Undefined ELSE r.horizon
       /\ pc' = IF r.threw THEN "threw" ELSE "frame"
       /\ rawY' = rawY \o r.sampleY
       /\ rawAngle' = rawAngle \o r.sampleAngle
  /\ preY' = horizonY
  /\ preAngle' = horizonAngle
  /\ lastLines' = lines
  /\ nFrames' = nFrames + 1
  /\ UNCHANGED <<config, args, capChanged>>

\* a call of _processFrame outside tick()
ProcessFrame(lines) == RunFrame(lines) /\ UNCHANGED controlVars

\* updateConfig(options) with one key, as the sliders call it:
\* cv-processor.js:887-889
UpdateConfig(key, val) ==
  /\ config' = [config EXCEPT ![key] = val]
  /\ capChanged' = (capChanged \/ (key = "smoothFrames" /\ val # config.smoothFrames))
  /\ pc' = "config"
  /\ UNCHANGED <<horizonY, horizonAngle, lastResult, args, ret, rawY, rawAngle,
                 preY, preAngle, lastLines, nFrames>>
  /\ UNCHANGED controlVars

Frame == \E lines \in FrameSet : ProcessFrame(lines)

SetSmoothFrames == \E v \in SmoothFramesOptions : UpdateConfig("smoothFrames", v)

SetHorizonMaxAngle ==
  \E v \in HorizonMaxAngleOptions : UpdateConfig("horizonMaxAngle", v)

SetWallAngleTolerance ==
  \E v \in WallAngleToleranceOptions : UpdateConfig("wallAngleTolerance", v)

Next == Frame \/ SetSmoothFrames \/ SetHorizonMaxAngle \/ SetWallAngleTolerance

Spec == Init /\ [][Next]_vars

----------------------------------------------------------------------------
(* Calls of the utility methods on drawn arguments *)

\* samples fed to the smoother
SampleValues == {50, 100, 101, 102, 150}

\* construction with the default options but smoothFrames
InitSmooth ==
  /\ Constructed
  /\ config \in {[DEFAULTS EXCEPT !.smoothFrames = c] : c \in 1..MaxSlots}
  /\ args = NoArgs

\* this._smoothValue('horizonY', value)
SmoothCall(value) ==
  /\ Len(rawY) < MaxFeed
  /\ \E r \in {SmoothValue(horizonY, config.smoothFrames, value)} :
       /\ horizonY' = r.buffer
       /\ ret' = r.value
  /\ rawY' = Append(rawY, value)
  /\ preY' = horizonY
  /\ pc' = "smooth"
  /\ UNCHANGED <<horizonAngle, config, lastResult, args, rawAngle, preAngle,
                 lastLines, capChanged, nFrames>>
  /\ UNCHANGED controlVars

NextSmooth == \E value \in SampleValues : SmoothCall(value)

SpecSmooth == InitSmooth /\ [][NextSmooth]_vars

\* items { v, w } handed to _weightedMedian
WeightedItems == [v : {10, 20, 30}, w : 0..MaxWeight]

InitMedian ==
  /\ Constructed
  /\ config = DEFAULTS
  /\ args \in {[items |-> its] : its \in SeqsUpTo(WeightedItems, MaxMedianItems)}

\* this._weightedMedian(items)
MedianCall ==
  /\ pc = "init"
  /\ ret' = WeightedMedian(args.items)
  /\ pc' = "median"
  /\ UNCHANGED <<horizonY, horizonAngle, config, lastResult, args, rawY, rawAngle,
                 preY, preAngle, lastLines, capChanged, nFrames>>
  /\ UNCHANGED controlVars

SpecMedian == InitMedian /\ [][MedianCall]_vars

\* items handed to _clusterByProperty: the property v and the input position id
Identified(values) == [i \in 1..Len(values) |-> [id |-> i, v |-> values[i]]]

InitCluster ==
  /\ Constructed
  /\ config = DEFAULTS
  /\ args \in {[items |-> Identified(values), tolerance |-> t, minSize |-> m] :
                 values \in SeqsUpTo(0..MaxValue, MaxItems),
                 t \in 1..MaxTolerance, m \in 0..MaxMinSize}

\* this._clusterByProperty(items, 'v', tolerance, minSize)
ClusterCall ==
  /\ pc = "init"
  /\ ret' = ClusterByProperty(args.items, "v", args.tolerance, args.minSize)
  /\ pc' = "cluster"
  /\ UNCHANGED <<horizonY, horizonAngle, config, lastResult, args, rawY, rawAngle,
                 preY, preAngle, lastLines, capChanged, nFrames>>
  /\ UNCHANGED controlVars

SpecCluster == InitCluster /\ [][ClusterCall]_vars

InitClassify ==
  /\ Constructed
  /\ config \in ConfigOptions
  /\ args \in {[lines |-> lines] : lines \in SeqsUpTo(SegmentCatalog, MaxLines)}

\* this._classifyLines(lines, width, height, params) on a fresh processor;
\* ret keeps the two candidate lists beside the value returned
ClassifyCall ==
  /\ pc = "init"
  /\ \E c \in {Candidates(args.lines, config)} :
       \E r \in {ClassifyCandidates(c, processWidth, processHeight,
                                    ComputeAdaptiveParams(processWidth,
                                                          processHeight, config),
                                    horizonY, horizonAngle, config)} :
         /\ ret' = [horizonCandidates |-> c.horizonCandidates,
                    wallCandidates |-> c.wallCandidates,
                    threw |-> r.threw, horizon |-> r.horizon, walls |-> r.walls]
         /\ horizonY' = r.horizonY
         /\ horizonAngle' = r.horizonAngle
         /\ rawY' = r.sampleY
         /\ rawAngle' = r.sampleAngle
  /\ lastLines' = args.lines
  /\ pc' = "classified"
  /\ UNCHANGED <<config, lastResult, args, preY, preAngle, capChanged, nFrames>>
  /\ UNCHANGED controlVars

SpecClassify == InitClassify /\ [][ClassifyCall]_vars

----------------------------------------------------------------------------
(* _classifyLines on frames with more wall candidates than are reported *)

\* the line at position i of such a frame: a vertical segment drawn downwards
\* whose length grows with i, one drawn upwards whose length shrinks with i,
\* or a short horizontal segment
RisingWall(i) == <<20 * i, 20, 20 * i, 20 + 10 * i>>

FallingWall(i) == <<20 * i, 20 + 10 * (14 - i), 20 * i, 20>>

FlatLine(i) == <<20 * i, 220, 20 * i + 15, 220>>

WallChoices(i) ==
  IF i % 4 = 0 THEN {RisingWall(i), FlatLine(i)}
  ELSE {RisingWall(i), FallingWall(i)}

RECURSIVE WallFramesOf(_)
WallFramesOf(k) ==
  IF k = 0 THEN {<<>>}
  ELSE {Append(f, l) : f \in WallFramesOf(k - 1), l \in WallChoices(k)}

WallFrames == UNION {WallFramesOf(k) : k \in 0..MaxWallLines}

InitWalls ==
  /\ Constructed
  /\ config = DEFAULTS
  /\ args \in {[lines |-> lines] : lines \in WallFrames}

SpecWalls == InitWalls /\ [][ClassifyCall]_vars

----------------------------------------------------------------------------
(* The score of _selectBestCluster on a cluster and on the cluster grown by
   one segment: cv-processor.js:606-617 *)

\* segments whose angle is in the horizon range of the configurations
ScoreSegments ==
  {SegA1, SegLow, SegUp, SegDown, SegDiag, SegSteep, SegSteepDown, SegZero, SegDot}

\* the horizon candidates of a list of lines, as the classifier pushes them
EntriesOf(lines) == [i \in 1..Len(lines) |-> HorizonEntry(Derive(lines[i]))]

InitScore ==
  /\ Constructed
  /\ config = DEFAULTS
  /\ args \in {[cluster |-> EntriesOf(lines), segment |-> HorizonEntry(Derive(l))] :
                 lines \in SeqsUpTo(ScoreSegments, MaxClusterSize) \ {<<>>},
                 l \in ScoreSegments \ {SegZero}}

\* the score computed for args.cluster and for args.cluster with args.segment
ScoreCall ==
  /\ pc = "init"
  /\ ret' = [before |-> Scored(args.cluster),
             after |-> Scored(Append(args.cluster, args.segment))]
  /\ pc' = "scored"
  /\ UNCHANGED <<horizonY, horizonAngle, config, lastResult, args, rawY, rawAngle,
                 preY, preAngle, lastLines, capChanged, nFrames>>
  /\ UNCHANGED controlVars

SpecScore == InitScore /\ [][ScoreCall]_vars

----------------------------------------------------------------------------
(* _selectBestCluster on the collinear clusters of a frame:
   cv-processor.js:602-626 *)

\* collinear clusters on lines of the frame far enough apart to stay separate:
\* four short segments and one long segment of the same total length, two
\* segments of that total length, three segments of 260 px, a tilted segment,
\* and a segment of length 0
Short4 ==
  EntriesOf(<<<<20, 40, 45, 40>>, <<60, 40, 85, 40>>, <<100, 40, 125, 40>>,
              <<140, 40, 165, 40>>>>)

Long1 == EntriesOf(<<<<20, 80, 120, 80>>>>)

Pair2 == EntriesOf(<<<<20, 160, 70, 160>>, <<90, 160, 140, 160>>>>)

Triple == EntriesOf(<<SegA1, SegA2, SegA3>>)

ZeroOnly == EntriesOf(<<<<200, 200, 200, 200>>>>)

ClusterCatalog == {Short4, Long1, Pair2, Triple, ZeroOnly}

\* the lists of different clusters, in any order
ClusterLists ==
  {cs \in SeqsUpTo(ClusterCatalog, MaxClusters) :
     \A i, j \in 1..Len(cs) : i # j => cs[i] # cs[j]}

InitSelect ==
  /\ Constructed
  /\ config = DEFAULTS
  /\ args \in {[clusters |-> cs] : cs \in ClusterLists}

\* this._selectBestCluster(collinearClusters)
SelectCall ==
  /\ pc = "init"
  /\ ret' = SelectBestCluster(args.clusters)
  /\ pc' = "selected"
  /\ UNCHANGED <<horizonY, horizonAngle, config, lastResult, args, rawY, rawAngle,
                 preY, preAngle, lastLines, capChanged, nFrames>>
  /\ UNCHANGED controlVars

SpecSelect == InitSelect /\ [][SelectCall]_vars

----------------------------------------------------------------------------
(* The estimator called twice on one segment list, from empty buffers:
   _classifyLines and _detectHorizon, cv-processor.js:456-561 *)

\* the frames of the processor's runs and every frame of one segment
TwiceFrames == FrameSet \cup (SeqsUpTo(SegmentCatalog, 1) \ {<<>>})

InitTwice ==
  /\ Constructed
  /\ config \in ConfigOptions
  /\ args \in {[lines |-> lines] : lines \in TwiceFrames}

\* what the caller of the estimator gets: the estimate, null, or an exception
ResultOf(r) == IF r.threw THEN Undefined ELSE r.horizon

\* the results of the calls so far, with the one of this call
Results(before, r, first) ==
  IF first THEN [first |-> ResultOf(r)]
  ELSE [first |-> before.first, second |-> ResultOf(r)]

\* one call of this._classifyLines(lines, width, height, params)
EstimateCall ==
  /\ pc \in {"init", "once"}
  /\ \E r \in {ClassifyLines(args.lines, processWidth, processHeight,
                             ComputeAdaptiveParams(processWidth, processHeight,
                                                   config),
                             horizonY, horizonAngle, config)} :
       /\ ret' = Results(ret, r, pc = "init")
       /\ horizonY' = r.horizonY
       /\ horizonAngle' = r.horizonAngle
       /\ rawY' = rawY \o r.sampleY
       /\ rawAngle' = rawAngle \o r.sampleAngle
  /\ preY' = horizonY
  /\ preAngle' = horizonAngle
  /\ lastLines' = args.lines
  /\ pc' = IF pc = "init" THEN "once" ELSE "twice"
  /\ UNCHANGED <<config, lastResult, args, capChanged, nFrames>>
  /\ UNCHANGED controlVars

SpecTwice == InitTwice /\ [][EstimateCall]_vars

----------------------------------------------------------------------------
(* start(), stop() and tick(now): cv-processor.js:183-224 *)

\* _buildHorizonLine on one frame of a fresh processor, the angle limit also
\* set past 90 degrees so that a vertical segment can be a horizon candidate

\* a level segment between two tilted ones of one collinear cluster: the
\* median angle is the level segment's, the median offset a tilted one's
MixedFrame ==
  <<<<140, 120, 180, 120>>, <<80, 107, 120, 103>>, <<180, 128, 220, 132>>>>

\* level segments on the rows 120 and 60
LevelSegments ==
  {SegA1, SegA2, SegA3, SegHigh, <<120, 60, 200, 60>>, <<310, 60, 210, 60>>}

CenterFrames ==
  {MixedFrame} \cup FrameSet \cup SeqsUpTo(SegmentCatalog, 1)
    \cup [1..3 -> LevelSegments]

InitCenter ==
  /\ Constructed
  /\ config \in {[DEFAULTS EXCEPT !.horizonMaxAngle = a, !.minClusterSegments = m] :
                   a \in HorizonMaxAngleOptions \cup {95},
                   m \in MinClusterSegmentsOptions}
  /\ args \in {[lines |-> lines] : lines \in CenterFrames}

SpecCenter == InitCenter /\ [][ClassifyCall]_vars

\* the frames the camera shows while the processor runs
RunFrames == {<<SegHigh>>, <<SegA1, SegA2, SegA3>>}

\* values of the 'scene-interval' slider, in ms
ProcessIntervalOptions == {DefaultProcessInterval, TimeStep}

InitRun ==
  /\ Constructed
  /\ config \in {[DEFAULTS EXCEPT !.smoothFrames = n] : n \in SmoothFramesOptions}
  /\ args = NoArgs

\* the fields of the estimator and the histories of its frames
estimatorVars ==
  <<horizonY, horizonAngle, lastResult, ret, rawY, rawAngle, preY, preAngle,
    lastLines, nFrames>>

\* _checkOpenCV(), started by the constructor, finds cv.Mat
CheckOpenCV ==
  /\ ~cvReady
  /\ cvReady' = TRUE
  /\ pc' = "cv"
  /\ UNCHANGED <<config, args, capChanged, estimatorVars, running, enabled,
                 lastProcessTime, starting, clock, ticks, atStop>>

\* start() up to its await: with OpenCV ready it sets the flags at once;
\* pc tells a start that follows a stop() (config.enabled is false) from others
StartCall ==
  /\ ~starting
  /\ IF cvReady
     THEN /\ running' = TRUE
          /\ enabled' = "true"
          /\ pc' = IF enabled = "false" THEN "restarted" ELSE "started"
          /\ UNCHANGED starting
     ELSE /\ starting' = TRUE
          /\ pc' = "starting"
          /\ UNCHANGED <<running, enabled>>
  /\ UNCHANGED <<config, args, capChanged, estimatorVars, cvReady,
                 lastProcessTime, clock, ticks, atStop>>

\* start() after waitForOpenCV(): OpenCV was loaded, or the wait timed out
StartResume ==
  /\ starting
  /\ starting' = FALSE
  /\ \/ /\ cvReady' = TRUE
        /\ running' = TRUE
        /\ enabled' = "true"
        /\ pc' = IF enabled = "false" THEN "restarted" ELSE "started"
     \/ /\ ~cvReady
        /\ pc' = "failed"
        /\ UNCHANGED <<cvReady, running, enabled>>
  /\ UNCHANGED <<config, args, capChanged, estimatorVars, lastProcessTime,
                 clock, ticks, atStop>>

\* stop()
Stop ==
  /\ running' = FALSE
  /\ enabled' = "false"
  /\ atStop' = [horizonY |-> horizonY, horizonAngle |-> horizonAngle,
                lastResult |-> lastResult]
  /\ pc' = "stopped"
  /\ UNCHANGED <<config, args, capChanged, estimatorVars, cvReady,
                 lastProcessTime, starting, clock, ticks>>

\* variant: the throttle test is missing
ShouldProcessUnthrottled(now) == running /\ cvReady

\* variant: the test of _running is missing
ShouldProcessStopped(now) ==
  cvReady /\ now - lastProcessTime >= config.processInterval

\* the two tests of tick(now)
ShouldProcess(now) ==
  running /\ cvReady /\ now - lastProcessTime >= config.processInterval

\* tick(now); captured tells whether _captureFrame() returned a frame
Tick(now, captured, lines) ==
  /\ clock < MaxTicks * TimeStep
  /\ clock' = now
  /\ IF ShouldProcess(now)
     THEN /\ lastProcessTime' = now
          /\ ticks' = Append(ticks, [at |-> now, since |-> now - lastProcessTime,
                                     interval |-> config.processInterval,
                                     running |-> running, cvReady |-> cvReady])
          /\ IF captured
             THEN RunFrame(lines)
             ELSE /\ pc' = "nosource"
                  /\ UNCHANGED <<config, args, capChanged, estimatorVars>>
     ELSE /\ pc' = "idle"
          /\ UNCHANGED <<config, args, capChanged, estimatorVars,
                         lastProcessTime, ticks>>
  /\ UNCHANGED <<running, cvReady, enabled, starting, atStop>>

\* the compositor calls tick with performance.now(), which never goes back
Ticking ==
  \E now \in {clock + TimeStep, clock + 2 * TimeStep} :
    \E captured \in BOOLEAN : \E lines \in RunFrames : Tick(now, captured, lines)

SetProcessInterval ==
  \E v \in ProcessIntervalOptions : UpdateConfig("processInterval", v)

NextRun == CheckOpenCV \/ StartCall \/ StartResume \/ Stop \/ Ticking
             \/ SetProcessInterval

SpecRun == InitRun /\ [][NextRun]_vars

----------------------------------------------------------------------------
(* Properties of the horizon estimator and the smoothing buffers *)

\* no line of the frame passes the horizon test of the classifier
NoHorizonCandidate(lines, cfg) ==
  \A i \in 1..Len(lines) : ~IsHorizonCandidate(Derive(lines[i]), cfg)

\* C1: a frame in which no segment is a horizon candidate (an empty frame
\* included) gives horizon = null and leaves both smoothing buffers exactly
\* as they were before the call.
C1_NoCandidateLeavesBuffers ==
  (pc = "frame" /\ NoHorizonCandidate(lastLines, config)) =>
    /\ ret = Null
    /\ lastResult.horizon = Null
    /\ horizonY = preY
    /\ horizonAngle = preAngle

\* a frame of one steep segment, no candidate, met with non-empty buffers
C1_Witness ==
  /\ pc = "frame"
  /\ lastLines = <<SegSteep>>
  /\ NoHorizonCandidate(lastLines, config)
  /\ preY # <<>>
  /\ horizonY = preY
  /\ lastResult.horizon = Null

\* C2: each smoothing buffer holds at most smoothFrames samples in every
\* reachable state, updateConfig changing smoothFrames included.
C2_BufferWithinCapacity ==
  /\ Len(horizonY) <= config.smoothFrames
  /\ Len(horizonAngle) <= config.smoothFrames

\* C3: with a capacity that was never changed, each buffer is the last
\* min(k, c) raw samples of its channel in arrival order.
C3_Fifo ==
  ~capChanged =>
    /\ horizonY = LastN(rawY, Min(Len(rawY), config.smoothFrames))
    /\ horizonAngle = LastN(rawAngle, Min(Len(rawAngle), config.smoothFrames))

\* three different samples went through a buffer of two slots
C3_Witness ==
  /\ ~capChanged
  /\ config.smoothFrames = 2
  /\ Len(rawY) = 3
  /\ rawY[1] # rawY[2] /\ rawY[2] # rawY[3] /\ rawY[1] # rawY[3]
  /\ horizonY = <<rawY[2], rawY[3]>>

\* the number of buffer positions whose sample is below x, is at most x
CountBelow(buffer, x) == Cardinality({i \in 1..Len(buffer) : buffer[i] < x})

CountUpTo(buffer, x) == Cardinality({i \in 1..Len(buffer) : buffer[i] <= x})

\* C4: _smoothValue returns the element of rank floor(n / 2) (counted from 0)
\* of the buffer after the insertion, for odd and even n: a sample of the
\* buffer with at most floor(n / 2) samples below it and more than floor(n / 2)
\* samples not above it.
C4_MedianIsRankHalf ==
  pc = "smooth" =>
    /\ \E i \in 1..Len(horizonY) : horizonY[i] = ret
    /\ CountBelow(horizonY, ret) <= Len(horizonY) \div 2
    /\ CountUpTo(horizonY, ret) > Len(horizonY) \div 2

\* an even count whose two middle samples differ: the upper one is returned
C4_Witness ==
  /\ pc = "smooth"
  /\ horizonY = <<100, 150, 102, 101>>
  /\ ret = 102

\* x is the only largest (smallest) sample of the buffer
OnlyMax(buffer, x) ==
  Cardinality({i \in 1..Len(buffer) : buffer[i] >= x}) = 1

OnlyMin(buffer, x) ==
  Cardinality({i \in 1..Len(buffer) : buffer[i] <= x}) = 1

\* C5: the samples 100, 102, 101, 150, 101 fed into an empty smoother of five
\* slots end with the value 101; and a full buffer of five slots with one
\* sample strictly above (or strictly below) all others never returns it.
C5_OutlierRejected ==
  (pc = "smooth" /\ config.smoothFrames = 5) =>
    /\ rawY = <<100, 102, 101, 150, 101>> => ret = 101
    /\ Len(horizonY) = 5 => ~OnlyMax(horizonY, ret) /\ ~OnlyMin(horizonY, ret)

C5_Witness ==
  /\ pc = "smooth"
  /\ config.smoothFrames = 5
  /\ rawY = <<100, 102, 101, 150, 101>>
  /\ horizonY = rawY
  /\ ret = 101

\* the weight of the items at the positions of S
RECURSIVE WeightOf(_, _)
WeightOf(its, S) ==
  IF S = {} THEN 0
  ELSE LET i == CHOOSE k \in S : TRUE IN its[i].w + WeightOf(its, S \ {i})

\* the weight of the items whose value is at most x
WeightUpTo(its, x) == WeightOf(its, {i \in 1..Len(its) : its[i].v <= x})

\* the least value at which the weight up to it reaches half of the total
LowerWeightedMedian(its) ==
  LET reach == {its[k].v : k \in {i \in 1..Len(its) :
                   2 * WeightUpTo(its, its[i].v) >= WeightOf(its, 1..Len(its))}}
  IN  CHOOSE x \in reach : \A y \in reach : x <= y

\* C6: _weightedMedian returns the lower weighted median, the value of the
\* first item in ascending order at which the cumulative weight reaches half
\* of the total; (1, 10), (2, 20), (3, 30) give 20.
C6_LowerWeightedMedian ==
  (pc = "median" /\ Len(args.items) > 0) =>
    /\ ret = LowerWeightedMedian(args.items)
    /\ args.items = <<[v |-> 10, w |-> 1], [v |-> 20, w |-> 2], [v |-> 30, w |-> 3]>>
         => ret = 20

C6_Witness ==
  /\ pc = "median"
  /\ args.items = <<[v |-> 10, w |-> 1], [v |-> 20, w |-> 2], [v |-> 30, w |-> 3]>>
  /\ ret = 20

\* item i opens a group: no earlier opener is within the tolerance of it
RECURSIVE IsSeed(_, _, _)
IsSeed(its, tol, i) ==
  \A s \in 1..(i - 1) : IsSeed(its, tol, s) => Abs(its[s].v - its[i].v) >= tol

\* item j is still unassigned when the opener s starts its scan
Unassigned(its, tol, j, s) ==
  \A t \in 1..(s - 1) : IsSeed(its, tol, t) => Abs(its[t].v - its[j].v) >= tol

\* the identifiers of the members of a cluster
IdsOf(cluster) == {cluster[m].id : m \in 1..Len(cluster)}

\* C7: an unassigned item joins the cluster of the current seed if and only if
\* its value differs from the value of the seed by strictly less than the
\* tolerance; a difference equal to the tolerance does not join.
C7_JoinIffStrictlyWithin ==
  pc = "cluster" =>
    \A c \in 1..Len(ret) :
      /\ IsSeed(args.items, args.tolerance, ret[c][1].id)
      /\ \A j \in (ret[c][1].id + 1)..Len(args.items) :
           Unassigned(args.items, args.tolerance, j, ret[c][1].id) =>
             (j \in IdsOf(ret[c])
                <=> Abs(ret[c][1].v - args.items[j].v) < args.tolerance)

\* the second item is at the tolerance exactly and stays out, the third is
\* one below the tolerance and joins
C7_Witness ==
  /\ pc = "cluster"
  /\ args.tolerance = 2
  /\ args.minSize = 1
  /\ args.items = Identified(<<0, 2, 1>>)
  /\ ret = <<<<[id |-> 1, v |-> 0], [id |-> 3, v |-> 1]>>, <<[id |-> 2, v |-> 2]>>>>

\* the items that no returned cluster before position c holds
NotInEarlier(clusters, c, id) == \A e \in 1..(c - 1) : id \notin IdsOf(clusters[e])

\* C8: clustering is anchored at the seed and not transitive: every member of
\* a returned cluster is within the tolerance of the first member, which is
\* the earliest item of the input not yet assigned, an item outside the
\* tolerance of the seed is never a member whatever other members it is close
\* to, and the input a, b, c with |a - b| < tol, |b - c| < tol and
\* |a - c| >= tol gives the clusters {a, b} and {c}.
C8_SeedAnchored ==
  pc = "cluster" =>
    /\ \A c \in 1..Len(ret) : \A m \in 2..Len(ret[c]) :
         /\ Abs(ret[c][1].v - ret[c][m].v) < args.tolerance
         /\ ret[c][1].id < ret[c][m].id
    /\ \A c \in 1..Len(ret) : \A j \in 1..Len(args.items) :
         Abs(ret[c][1].v - args.items[j].v) >= args.tolerance
           => j \notin IdsOf(ret[c])
    /\ args.minSize <= 1 =>
         \A c \in 1..Len(ret) : \A j \in 1..(ret[c][1].id - 1) :
           ~NotInEarlier(ret, c, j)
    /\ ( /\ Len(args.items) = 3
         /\ args.minSize <= 1
         /\ Abs(args.items[1].v - args.items[2].v) < args.tolerance
         /\ Abs(args.items[2].v - args.items[3].v) < args.tolerance
         /\ Abs(args.items[1].v - args.items[3].v) >= args.tolerance )
       => ret = <<<<args.items[1], args.items[2]>>, <<args.items[3]>>>>

\* a chain a, b, c: c is close to the member b and far from the seed a
C8_Witness ==
  /\ pc = "cluster"
  /\ args.tolerance = 2
  /\ args.minSize = 1
  /\ args.items = Identified(<<0, 1, 2>>)
  /\ ret = <<<<[id |-> 1, v |-> 0], [id |-> 2, v |-> 1]>>, <<[id |-> 3, v |-> 2]>>>>

\* the opener of the group of item j: the first opener within the tolerance
SeedOf(its, tol, j) ==
  CHOOSE s \in 1..j :
    /\ IsSeed(its, tol, s)
    /\ s = j \/ Abs(its[s].v - its[j].v) < tol
    /\ \A t \in 1..(s - 1) :
         IsSeed(its, tol, t) => Abs(its[t].v - its[j].v) >= tol

\* the number of items in the group that s opens
GroupSize(its, tol, s) ==
  Cardinality({j \in 1..Len(its) : SeedOf(its, tol, j) = s})

\* C9: every returned cluster has at least minSize members and at least one;
\* a group that ends below minSize is dropped, and none of its members is in
\* any returned cluster; no item is in two clusters.
C9_MinSize ==
  pc = "cluster" =>
    /\ \A c \in 1..Len(ret) : Len(ret[c]) >= args.minSize /\ Len(ret[c]) >= 1
    /\ \A c \in 1..Len(ret) : Cardinality(IdsOf(ret[c])) = Len(ret[c])
    /\ \A c, e \in 1..Len(ret) : c # e => IdsOf(ret[c]) \cap IdsOf(ret[e]) = {}
    /\ \A j \in 1..Len(args.items) :
         (\E c \in 1..Len(ret) : j \in IdsOf(ret[c]))
           <=> GroupSize(args.items, args.tolerance,
                         SeedOf(args.items, args.tolerance, j)) >= args.minSize

\* a single item between two pairs is dropped and appears nowhere
C9_Witness ==
  /\ pc = "cluster"
  /\ args.tolerance = 1
  /\ args.minSize = 2
  /\ args.items = Identified(<<0, 2, 0, 4>>)
  /\ ret = <<<<[id |-> 1, v |-> 0], [id |-> 3, v |-> 0]>>>>

\* the end points of the entries of a candidate list
EndPointsOf(list) ==
  {<<list[i].x1, list[i].y1, list[i].x2, list[i].y2>> : i \in 1..Len(list)}

\* C10: whatever horizonMaxAngle and wallAngleTolerance are configured, no
\* segment is in the horizon candidates and in the wall candidates at once.
C10_NeverBoth ==
  pc = "classified" =>
    EndPointsOf(ret.horizonCandidates) \cap EndPointsOf(ret.wallCandidates) = {}

\* the positions of the lines that pass the wall test of the classifier
WallPositions(lines, cfg) ==
  {i \in 1..Len(lines) : IsWallCandidate(Derive(lines[i]), cfg)}

\* C11: with the default angles a frame of one segment at 80 degrees gives
\* horizon = null with the buffers untouched while the segment is reported in
\* walls; in general the walls of a frame are its wall candidates whether a
\* horizon was found or not.
C11_WallsWithoutHorizon ==
  pc = "frame" =>
    /\ ( /\ lastLines = <<SegSteep>>
         /\ config.horizonMaxAngle = DefaultHorizonMaxAngle
         /\ config.wallAngleTolerance = DefaultWallAngleTolerance )
       => /\ ret = Null
          /\ horizonY = preY /\ horizonAngle = preAngle
          /\ Len(lastResult.walls) = 1
          /\ EndPointsOf(lastResult.walls) = {SegSteep}
    /\ Len(lastResult.walls)
         = Min(Cardinality(WallPositions(lastLines, config)), MaxWalls)
    /\ EndPointsOf(lastResult.walls)
         \subseteq {lastLines[i] : i \in WallPositions(lastLines, config)}

\* the frame of one segment at 80 degrees met with a filled history
C11_Witness ==
  /\ pc = "frame"
  /\ lastLines = <<SegSteep>>
  /\ config.horizonMaxAngle = DefaultHorizonMaxAngle
  /\ ret = Null
  /\ preY # <<>>
  /\ Len(lastResult.walls) = 1
  /\ lastResult.walls[1].angle = 7999

\* C12: the reported walls are at most 10, in order of non-increasing length,
\* each one a wall candidate of the frame with its end points unchanged, no
\* candidate twice, and no omitted wall candidate is longer than a reported one.
C12_TopWalls ==
  pc = "classified" =>
    /\ Len(ret.walls) <= 10
    /\ Len(ret.walls) = Min(Cardinality(WallPositions(args.lines, config)), 10)
    /\ \A i \in 1..(Len(ret.walls) - 1) :
         ret.walls[i].length >= ret.walls[i + 1].length
    /\ Cardinality(EndPointsOf(ret.walls)) = Len(ret.walls)
    /\ \A i \in 1..Len(ret.walls) :
         \E p \in WallPositions(args.lines, config) :
           /\ args.lines[p]
                = <<ret.walls[i].x1, ret.walls[i].y1, ret.walls[i].x2, ret.walls[i].y2>>
           /\ ret.walls[i].length
                = Hypot(args.lines[p][3] - args.lines[p][1],
                        args.lines[p][4] - args.lines[p][2])
    /\ \A p \in WallPositions(args.lines, config) :
         args.lines[p] \notin EndPointsOf(ret.walls) =>
           \A i \in 1..Len(ret.walls) :
             Hypot(args.lines[p][3] - args.lines[p][1],
                   args.lines[p][4] - args.lines[p][2]) <= ret.walls[i].length

\* eleven wall candidates of growing length: the first, the shortest, is left out
C12_Witness ==
  /\ pc = "classified"
  /\ Len(args.lines) = 11
  /\ Cardinality(WallPositions(args.lines, config)) = 11
  /\ Len(ret.walls) = 10
  /\ args.lines[1] \notin EndPointsOf(ret.walls)
  /\ args.lines[11] = <<ret.walls[1].x1, ret.walls[1].y1, ret.walls[1].x2, ret.walls[1].y2>>
  /\ ret.walls[1].length > ret.walls[10].length

\* an angle of the model between -90 and 90 degrees
InQuarterTurn(a) == -90 * AngleScale <= a /\ a <= 90 * AngleScale

\* C13: the normalized angle of every segment lies in [-90, 90], and so does
\* every buffered angle and the angle of every horizon estimate, after any
\* sequence of frames.
C13_AngleInRange ==
  /\ \A i \in 1..Len(lastLines) : InQuarterTurn(Derive(lastLines[i]).angle)
  /\ \A i \in 1..Len(horizonAngle) : InQuarterTurn(horizonAngle[i])
  /\ \A i \in 1..Len(rawAngle) : InQuarterTurn(rawAngle[i])
  /\ lastResult.horizon # Null => InQuarterTurn(lastResult.horizon.angle)
  /\ (pc = "frame" /\ ret # Null) => InQuarterTurn(ret.angle)

\* an estimate whose angle comes from a segment drawn right to left, of raw
\* angle 174.29 degrees, in a frame with raw angles below -90 as well
C13_Witness ==
  /\ pc = "frame"
  /\ ret # Null
  /\ ret.angle = -571
  /\ rawAngle # <<>>
  /\ rawAngle[Len(rawAngle)] = -571
  /\ \E i \in 1..Len(lastLines) : Derive(lastLines[i]).rawAngle = 17429
  /\ \E i \in 1..Len(lastLines) : Derive(lastLines[i]).rawAngle < -90 * AngleScale

\* C14: the confidence of every horizon estimate is
\* min(score / (0.8 * diagonal), 1), with the score of the cluster it was built
\* from and the diagonal 400 of the 320 x 240 frame, and lies in [0, 1], also
\* when horizonMaxAngle is above 45 and the angle bonus is negative.
C14_Confidence ==
  (pc = "frame" /\ ret # Null) =>
    /\ 0 <= ret.confidence /\ ret.confidence <= 1000
    /\ ret.confidence
         = Min(RoundDiv(Scored(ret.segments).score * 1000, 320 * LenScale), 1000)
    /\ Scored(ret.segments).score >= 0

\* an estimate from a segment at 80 degrees: the angle bonus is negative and
\* the confidence strictly between 0 and 1
C14_Witness ==
  /\ pc = "frame"
  /\ ret # Null
  /\ config.horizonMaxAngle > 45
  /\ AngleBonus(Scored(ret.segments).avgAngle) < 0
  /\ ret.confidence > 0
  /\ ret.confidence < 1000

\* the collinear clusters _detectHorizon forms from the horizon candidates
FrameClusters(candidates, cfg) ==
  CollinearClusters(
    ClusterByProperty(candidates, "angle",
                      ComputeAdaptiveParams(processWidth, processHeight,
                                            cfg).clusterToleranceAngle,
                      cfg.minClusterSegments),
    ComputeAdaptiveParams(processWidth, processHeight, cfg).clusterToleranceD,
    cfg.minClusterSegments)

\* a >= b on scores as JavaScript compares them: false when either is NaN
ScoreAtLeast(a, b) == ~a.isNaN /\ ~b.isNaN /\ a.score >= b.score

\* C15: whenever the frame has a collinear cluster, an estimate is built from
\* a cluster whose score is greater than or equal to the score of every
\* collinear cluster of the frame; without a cluster the result is null.
C15_BestScoreSelected ==
  pc = "classified" =>
    IF Len(FrameClusters(ret.horizonCandidates, config)) = 0
    THEN ~ret.threw /\ ret.horizon = Null
    ELSE /\ ~ret.threw
         /\ ret.horizon # Null
         /\ \A c \in 1..Len(FrameClusters(ret.horizonCandidates, config)) :
              ScoreAtLeast(Scored(ret.horizon.segments),
                           Scored(FrameClusters(ret.horizonCandidates, config)[c]))

\* a < b on scores as JavaScript compares them: false when either is NaN
ScoreLower(a, b) == ~a.isNaN /\ ~b.isNaN /\ a.score < b.score

\* C16: for every cluster and every added segment of non-zero length with an
\* angle in the horizon range, the score of the cluster with the segment is
\* not lower than the score of the cluster without it.
C16_ScoreMonotone ==
  (pc = "scored" /\ args.segment.length > 0) => ~ScoreLower(ret.after, ret.before)

\* a long flat cluster grown by a segment at 80 degrees: the angle bonus
\* drops and the score does not
C16_Witness ==
  /\ pc = "scored"
  /\ args.cluster = EntriesOf(<<SegA1, SegLow>>)
  /\ args.segment = HorizonEntry(Derive(SegSteep))
  /\ AngleBonus(ret.after.avgAngle) < AngleBonus(ret.before.avgAngle)
  /\ ret.after.score >= ret.before.score

\* two clusters of the same total length and the same average angle (both
\* numbers), the first with more segments
SameButMore(a, b) ==
  /\ ~Scored(a).isNaN /\ ~Scored(b).isNaN
  /\ Scored(a).totalLength = Scored(b).totalLength
  /\ Scored(a).avgAngle = Scored(b).avgAngle
  /\ Len(a) > Len(b)

\* C17: of two clusters with equal total length and equal average angle the
\* one with more segments has the strictly higher score, and the other is not
\* the one selected; four short segments beat one long segment of the same
\* total length and are selected, in either order.
C17_MoreSegmentsWin ==
  pc = "selected" =>
    /\ \A i, j \in 1..Len(args.clusters) :
         SameButMore(args.clusters[i], args.clusters[j]) =>
           /\ Scored(args.clusters[i]).score > Scored(args.clusters[j]).score
           /\ ret # Null
           /\ ret.cluster # args.clusters[j]
    /\ args.clusters \in {<<Long1, Short4>>, <<Short4, Long1>>} =>
         /\ ret # Null
         /\ ret.cluster = Short4
         /\ ret.segmentCount = 4

\* the long segment comes first and the four short ones overtake it
C17_Witness ==
  /\ pc = "selected"
  /\ args.clusters = <<Long1, Short4>>
  /\ SameButMore(Short4, Long1)
  /\ ret # Null
  /\ ret.cluster = Short4
  /\ ret.totalLength = 100 * LenScale

\* the result is an estimate: neither null nor an exception
IsEstimate(h) == h # Null /\ h # Undefined

\* angle and d of an estimate are the weighted medians of its cluster
RawMedians(h) ==
  /\ h.angle = WeightedMedian(AngleWeights(h.segments))
  /\ h.d = WeightedMedian(DWeights(h.segments))

\* C18: from empty buffers, two calls of the estimator in a row on the same
\* segment list give the same angle and the same d, each the weighted median
\* of the selected cluster; the two calls also agree on giving no estimate.
C18_TwiceSame ==
  pc = "twice" =>
    /\ IsEstimate(ret.first) <=> IsEstimate(ret.second)
    /\ ret.first = Null <=> ret.second = Null
    /\ IsEstimate(ret.first) =>
         /\ ret.second.angle = ret.first.angle
         /\ ret.second.d = ret.first.d
         /\ RawMedians(ret.first)
         /\ RawMedians(ret.second)
         /\ ret.second.segments = ret.first.segments

\* two estimates from a tilted cluster with a window of two frames
C18_Witness ==
  /\ pc = "twice"
  /\ config.smoothFrames = 2
  /\ IsEstimate(ret.first)
  /\ IsEstimate(ret.second)
  /\ ret.first.angle = 571
  /\ ret.second.angle = 571
  /\ rawAngle = <<571, 571>>
  /\ horizonAngle = <<571, 571>>

\* an entry of a candidate list whose two end points coincide
ZeroLength(e) == e.x1 = e.x2 /\ e.y1 = e.y2

\* C19: segments of length zero are skipped by the classifier: none is among
\* the horizon candidates, in a collinear cluster, or among the segments an
\* estimate was computed from.
C19_ZeroLengthSkipped ==
  pc = "classified" =>
    /\ \A i \in 1..Len(ret.horizonCandidates) : ~ZeroLength(ret.horizonCandidates[i])
    /\ \A c \in 1..Len(FrameClusters(ret.horizonCandidates, config)) :
         \A i \in 1..Len(FrameClusters(ret.horizonCandidates, config)[c]) :
           ~ZeroLength(FrameClusters(ret.horizonCandidates, config)[c][i])
    /\ IsEstimate(ret.horizon) =>
         \A i \in 1..Len(ret.horizon.segments) : ~ZeroLength(ret.horizon.segments[i])

\* C20: for every list of segments with integer end points inside the frame,
\* zero-length segments and clusters of total length 0 included, the estimator
\* returns null or a populated estimate and never throws.
C20_NeverThrows ==
  pc = "classified" =>
    /\ ~ret.threw
    /\ ret.horizon = Null \/ IsEstimate(ret.horizon)

C26_TickThrottled ==
  /\ \A i \in 1..Len(ticks) :
       ticks[i].running /\ ticks[i].cvReady /\ ticks[i].since >= ticks[i].interval
  /\ \A i \in 2..Len(ticks) : ticks[i].at - ticks[i - 1].at >= ticks[i].interval
  /\ nFrames <= Len(ticks)
  /\ Len(ticks) > 0 => lastProcessTime = ticks[Len(ticks)].at
  /\ ~running =>
       /\ horizonY = atStop.horizonY
       /\ horizonAngle = atStop.horizonAngle
       /\ lastResult = atStop.lastResult

\* two processed ticks, then a stop, then a tick late enough to be processed
\* if the processor were running
C26_Witness ==
  /\ pc = "idle"
  /\ ~running
  /\ enabled = "false"
  /\ Len(ticks) >= 2
  /\ horizonY # <<>>
  /\ clock - lastProcessTime >= config.processInterval

\* the outcome of the same frame on a processor whose buffers are empty
FreshOutcome(lines, cfg) ==
  ClassifyLines(lines, processWidth, processHeight,
                ComputeAdaptiveParams(processWidth, processHeight, cfg),
                <<>>, <<>>, cfg)

\* two results agree on being null and on every field but y and angle
SameButSmoothed(a, b) ==
  IF a = Null \/ b = Null
  THEN a = b
  ELSE /\ a.d = b.d
       /\ a.segments = b.segments
       /\ a.segmentCount = b.segmentCount
       /\ a.totalLength = b.totalLength
       /\ a.confidence = b.confidence

\* C22: history reaches an estimate only through the two buffers: the result
\* of a frame after any history and the result of the same segment list under
\* the same configuration with no history agree on being null and on d,
\* segments, segmentCount, totalLength and confidence; only y and angle differ.
C22_HistoryOnlyInYAngle ==
  pc = "frame" =>
    \E f \in {FreshOutcome(lastLines, config)} :
      ~f.threw /\ SameButSmoothed(ret, f.horizon)

\* a frame whose smoothed y differs from the one it gives without history
C22_Witness ==
  /\ pc = "frame"
  /\ IsEstimate(ret)
  /\ preY # <<>>
  /\ \E f \in {FreshOutcome(lastLines, config)} :
       ret.y # f.horizon.y /\ ret.d = f.horizon.d

\* y is the quotient (width/2 * sin - d) / cos rounded to the nearest unit
IsQuotient(y, sin, cos, d, width) ==
  2 * Abs(y * cos - (((width * LenScale) \div 2) * sin - d * TrigScale)) <= Abs(cos)

\* the raw y pushed for estimate h with median angle a follows the line
\* inversion where |cos| exceeds 0.001 and is height/2 otherwise
RawYInverts(h, y, a) ==
  IF 1000 * Abs(CosDeg(a)) > TrigScale
  THEN IsQuotient(y, SinDeg(a), CosDeg(a), h.d, processWidth)
  ELSE y = (processHeight * LenScale) \div 2

\* the midpoint y of every level segment of h that supplies the median offset
LevelSupplierAt(h, y) ==
  \A i \in 1..Len(h.segments) :
    h.segments[i].d = h.d /\ h.segments[i].angle = 0 => h.segments[i].cy = y

\* the midpoint y of some segment of h that supplies the median offset
SupplierAt(h, y) ==
  \E i \in 1..Len(h.segments) :
    h.segments[i].d = h.d /\ h.segments[i].cy = y

\* C23 as stated: the raw y is (width/2 * sin - d) / cos where |cos| > 0.001
\* and height/2 otherwise; for median angle 0 it is -d, the midpoint y of the
\* segment supplying the median offset; with horizonMaxAngle 45 the fallback
\* is never taken.
C23_RawYMidpoint ==
  pc = "classified" /\ ~ret.threw /\ IsEstimate(ret.horizon) =>
    /\ RawYInverts(ret.horizon, rawY[1], rawAngle[1])
    /\ rawAngle[1] = 0 =>
         rawY[1] = -ret.horizon.d /\ SupplierAt(ret.horizon, rawY[1])
    /\ config.horizonMaxAngle = DefaultHorizonMaxAngle =>
         1000 * Abs(CosDeg(rawAngle[1])) > TrigScale

\* C23 amended: as above, but for median angle 0 the raw y -d is the midpoint
\* y of the segment supplying the median offset only if that segment is level.
C23_RawYInversion ==
  pc = "classified" /\ ~ret.threw /\ IsEstimate(ret.horizon) =>
    /\ RawYInverts(ret.horizon, rawY[1], rawAngle[1])
    /\ rawAngle[1] = 0 =>
         rawY[1] = -ret.horizon.d /\ LevelSupplierAt(ret.horizon, rawY[1])
    /\ config.horizonMaxAngle = DefaultHorizonMaxAngle =>
         1000 * Abs(CosDeg(rawAngle[1])) > TrigScale

\* median angle 0 with the median offset supplied by a tilted segment
C23_Witness ==
  /\ pc = "classified"
  /\ ~ret.threw
  /\ IsEstimate(ret.horizon)
  /\ rawAngle = <<0>>
  /\ rawY = <<-ret.horizon.d>>
  /\ ~SupplierAt(ret.horizon, rawY[1])

\* every line of the frame is level on row c
LevelOn(lines, c) ==
  \A i \in 1..Len(lines) : lines[i][2] = c /\ lines[i][4] = c

\* the summed horizontal extent of three lines
Extent3(lines) ==
  Abs(lines[1][3] - lines[1][1]) + Abs(lines[2][3] - lines[2][1])
    + Abs(lines[3][3] - lines[3][1])

\* C24: from empty buffers and under the default configuration, three level
\* segments on one row c whose lengths add up to more than half the frame
\* width give an estimate with segmentCount 3, y = c and confidence above 0.5.
C24_ScenarioA ==
  /\ pc = "classified"
  /\ config = DEFAULTS
  /\ Len(lastLines) = 3
  /\ LevelOn(lastLines, lastLines[1][2])
  /\ 2 * Extent3(lastLines) > processWidth
  => /\ ~ret.threw
     /\ IsEstimate(ret.horizon)
     /\ ret.horizon.segmentCount = 3
     /\ ret.horizon.y = lastLines[1][2] * LenScale
     /\ ret.horizon.confidence > 500

\* the three segments on the middle row of the frame
C24_Witness ==
  /\ pc = "classified"
  /\ config = DEFAULTS
  /\ preY = <<>>
  /\ lastLines = <<SegA1, SegA2, SegA3>>
  /\ IsEstimate(ret.horizon)
  /\ ret.horizon.y = (processHeight * LenScale) \div 2

\* the members of cluster k are within tolAngle of the angle of one candidate
\* and within tolD of the offset of the cluster's first member, hence any two
\* of them closer than twice each tolerance
WithinSeeds(k, candidates, tolAngle, tolD) ==
  /\ \E a \in 1..Len(candidates) :
       \A i \in 1..Len(k) : Abs(k[i].angle - candidates[a].angle) < tolAngle
  /\ \A i \in 1..Len(k) : Abs(k[i].d - k[1].d) < tolD
  /\ \A i, j \in 1..Len(k) :
       /\ Abs(k[i].angle - k[j].angle) < 2 * tolAngle
       /\ Abs(k[i].d - k[j].d) < 2 * tolD

\* the angle clusters that hold every member of cluster k
HoldersOf(k, angleClusters) ==
  {a \in 1..Len(angleClusters) :
     \A i \in 1..Len(k) : \E j \in 1..Len(angleClusters[a]) :
       angleClusters[a][j] = k[i]}

\* the angle clusters of the frame
AngleClustersOf(candidates, cfg) ==
  ClusterByProperty(candidates, "angle",
                    ComputeAdaptiveParams(processWidth, processHeight,
                                          cfg).clusterToleranceAngle,
                    cfg.minClusterSegments)

NestedIn(k, candidates, cfg) ==
  /\ WithinSeeds(k, candidates,
                 ComputeAdaptiveParams(processWidth, processHeight,
                                       cfg).clusterToleranceAngle,
                 ComputeAdaptiveParams(processWidth, processHeight,
                                       cfg).clusterToleranceD)
  /\ Cardinality(HoldersOf(k, AngleClustersOf(candidates, cfg))) = 1

\* C25: clustering is nested: every collinear cluster of a frame lies in
\* exactly one angle cluster, and the segments of the selected cluster are
\* within the angle tolerance of one angle seed and within the offset
\* tolerance of one offset seed, any two closer than twice each tolerance;
\* segments of different angle clusters are never in one collinear cluster.
C25_NestedClusters ==
  pc = "classified" =>
    /\ \A c \in 1..Len(FrameClusters(ret.horizonCandidates, config)) :
         NestedIn(FrameClusters(ret.horizonCandidates, config)[c],
                  ret.horizonCandidates, config)
    /\ ~ret.threw /\ IsEstimate(ret.horizon) =>
         NestedIn(ret.horizon.segments, ret.horizonCandidates, config)

\* two candidates with offsets within the tolerance and angles apart by more
\* than the angle tolerance: the estimate is built from one of them only
C25_Witness ==
  /\ pc = "classified"
  /\ ~ret.threw
  /\ IsEstimate(ret.horizon)
  /\ Len(ret.horizonCandidates) = 2
  /\ Abs(ret.horizonCandidates[1].d - ret.horizonCandidates[2].d) < 12 * LenScale
  /\ Abs(ret.horizonCandidates[1].angle - ret.horizonCandidates[2].angle)
       >= DefaultClusterAngleTolerance * AngleScale
  /\ ret.horizon.segmentCount = 1

\* C27: after any sequence of frames and configuration updates the two
\* buffers have the same length: a frame appends a sample to both or to none.
C27_BuffersSameLength ==
  /\ Len(horizonY) = Len(horizonAngle)
  /\ Len(rawY) = Len(rawAngle)
  /\ Len(preY) = Len(preAngle)

\* a frame processed after the window was narrowed, both buffers full
C27_Witness ==
  /\ pc = "frame"
  /\ IsEstimate(ret)
  /\ capChanged
  /\ config.smoothFrames = 1
  /\ Len(horizonY) = MaxSmoothFrames
  /\ Len(horizonAngle) = MaxSmoothFrames

\* the places <<c, m>> of the returned clusters that hold the item with id
PlacesOf(clusters, id) ==
  {p \in UNION {{<<c, m>> : m \in 1..Len(clusters[c])} : c \in 1..Len(clusters)} :
     clusters[p[1]][p[2]].id = id}

\* C28: with minSize = 1, _clusterByProperty partitions its input: every item
\* is in exactly one cluster and at one place, the clusters come in the input
\* order of their seeds, and the members of a cluster keep their input order.
C28_Partition ==
  (pc = "cluster" /\ args.minSize = 1) =>
    /\ \A i \in 1..Len(args.items) : Cardinality(PlacesOf(ret, i)) = 1
    /\ \A c \in 1..Len(ret) :
         /\ ret[c] # <<>>
         /\ \A m \in 1..Len(ret[c]) :
              /\ ret[c][m].id \in 1..Len(args.items)
              /\ ret[c][m] = args.items[ret[c][m].id]
         /\ \A m, n \in 1..Len(ret[c]) : m < n => ret[c][m].id < ret[c][n].id
    /\ \A c, e \in 1..Len(ret) : c < e => ret[c][1].id < ret[e][1].id

\* an item between two members of an earlier cluster seeds the second cluster
C28_Witness ==
  /\ pc = "cluster"
  /\ args.minSize = 1
  /\ Len(args.items) = 4
  /\ Len(ret) = 2
  /\ IdsOf(ret[1]) = {1, 3, 4}
  /\ IdsOf(ret[2]) = {2}

\* v is one of the samples of s and lies between the least and the greatest
SampleOf(v, s) ==
  /\ \E i \in 1..Len(s) : s[i] = v
  /\ \A i, j \in 1..Len(s) : (\A k \in 1..Len(s) : s[i] <= s[k] /\ s[k] <= s[j])
                               => s[i] <= v /\ v <= s[j]

\* C29: the smoothed y and the smoothed angle of an estimate are each a raw
\* sample held in the corresponding buffer, one of the raw values of the last
\* smoothFrames frames that gave a horizon, between the least and the
\* greatest buffered sample; never an interpolated or averaged value.
C29_SmoothedIsRecentSample ==
  pc = "frame" /\ IsEstimate(ret) =>
    /\ SampleOf(ret.y, horizonY)
    /\ SampleOf(ret.angle, horizonAngle)
    /\ SampleOf(ret.y, LastN(rawY, Min(Len(rawY), config.smoothFrames)))
    /\ SampleOf(ret.angle, LastN(rawAngle, Min(Len(rawAngle), config.smoothFrames)))

\* the lengths of the segments of s added up
RECURSIVE LengthsAdded(_, _)
LengthsAdded(s, n) == IF n = 0 THEN 0 ELSE s[n].length + LengthsAdded(s, n - 1)

\* C30: an estimate is consistent with the frame it comes from: its segments
\* are a non-empty part of the frame's horizon candidates, each derived from a
\* line of the frame and with |angle| < horizonMaxAngle, segmentCount is their
\* number, totalLength the sum of their lengths, d the offset of one of them.
C30_EstimateConsistent ==
  pc = "classified" /\ ~ret.threw /\ IsEstimate(ret.horizon) =>
    /\ Len(ret.horizon.segments) > 0
    /\ \A i \in 1..Len(ret.horizon.segments) :
         /\ \E j \in 1..Len(ret.horizonCandidates) :
              ret.horizonCandidates[j] = ret.horizon.segments[i]
         /\ \E k \in 1..Len(lastLines) :
              /\ lastLines[k][1] = ret.horizon.segments[i].x1
              /\ lastLines[k][2] = ret.horizon.segments[i].y1
              /\ lastLines[k][3] = ret.horizon.segments[i].x2
              /\ lastLines[k][4] = ret.horizon.segments[i].y2
         /\ Abs(ret.horizon.segments[i].angle) < config.horizonMaxAngle * AngleScale
    /\ ret.horizon.segmentCount = Len(ret.horizon.segments)
    /\ ret.horizon.totalLength
         = LengthsAdded(ret.horizon.segments, Len(ret.horizon.segments))
    /\ \E i \in 1..Len(ret.horizon.segments) :
         ret.horizon.segments[i].d = ret.horizon.d

\* an estimate from two of the candidates with different offsets
C30_Witness ==
  /\ pc = "classified"
  /\ ~ret.threw
  /\ IsEstimate(ret.horizon)
  /\ Len(ret.horizonCandidates) = 2
  /\ ret.horizon.segmentCount = 2
  /\ ret.horizon.segments[1].d # ret.horizon.segments[2].d
  /\ ret.horizon.totalLength > ret.horizon.segments[1].length

====
